---- MODULE Spec2Model ----
(***************************************************************************)
(* Kanmind backend: boards, tasks and task comments behind the REST views  *)
(* of board_app and tasks_app.  The relational store is the state (db).    *)
(* Every request handler is an operator from the store and the request to  *)
(* the store it leaves and the response it returns; an action applies it.  *)
(***************************************************************************)
EXTENDS Integers, Sequences, FiniteSets, TLC

\* db: the tables; reqs: requests in flight, each at a step of its handler;
\* resp: the response of the request that completed last
VARIABLES db, reqs, resp

vars == <<db, reqs, resp>>

(* ---------------------------- bounds ----------------------------------- *)
\* boards, tasks and comments ever created; length of a members list
MaxBoards == 2
MaxTasks == 1
MaxComments == 2
MaxListLen == 2
MaxCreates == 2
MaxDeletes == 2
InitialComments == 2
\* accounts ever registered; registration requests in flight or ended
MaxUsers == 2
MaxRegisters == 2

(* --------------------------- value sets -------------------------------- *)
None == 0
\* the registered users: enough for an owner, a member and an outsider
UserIds == {1, 2, 3}
\* the ids a request may name are the registered users and 4, the id of no
\* user
Titles == {"a", "b"}
\* a comment's text as a request carries it: blank, or some text
Contents == {"", "c"}
ABSENT == "<absent>"
\* title of a request body: key absent, blank, or a title
TitleInputs == {ABSENT, ""} \cup Titles
\* Task.Status, Task.Priority
Statuses == {"to-do", "in-progress", "review", "done"}
Priorities == {"low", "medium", "high"}

\* the lists over S of length <= n, one per multiset: the views read a members
\* list only through id__in and set(), which ignore the order of the list
RECURSIVE SeqsUpTo(_, _)
SeqsUpTo(S, n) ==
    IF n = 0 THEN {<<>>}
    ELSE LET shorter == SeqsUpTo(S, n - 1)
         IN  shorter \cup
             UNION {{Append(s, x) : x \in {y \in S : \A i \in DOMAIN s : s[i] <= y}}
                    : s \in {q \in shorter : Len(q) = n - 1}}

Range(s) == {s[i] : i \in DOMAIN s}
Restrict(f, S) == [x \in S |-> f[x]]

\* "members" of a request body: key absent, JSON null, a non-list value, a list
MembersInputs ==
    {[kind |-> k, ids |-> <<>>] : k \in {"absent", "null", "scalar"}}
    \cup {[kind |-> "list", ids |-> s] : s \in SeqsUpTo(UserIds \cup {4}, MaxListLen)}

\* assignee_id / reviewer_id of a request body: key absent, null, or an id
NoUserId == [given |-> FALSE, id |-> None]
UserIdInputs ==
    {NoUserId} \cup {[given |-> TRUE, id |-> i] : i \in {None} \cup UserIds \cup {4}}

\* the body of a response: the fields the views return, empty where unused
NoBody == [detail |-> "", title |-> "", owner_id |-> None, members |-> {},
           tasks |-> {}, results |-> <<>>, created |-> None, token |-> None]
Detail(text) == [NoBody EXCEPT !.detail = text]

Response(op, actor, id, status, out) ==
    [op |-> op, actor |-> actor, id |-> id, status |-> status, out |-> out]
NoResponse == Response("none", None, None, None, NoBody)

\* what a handler leaves: the store and the response
Result(d, r) == [db |-> d, resp |-> r]

\* a row of the user table; password holds what set_password stored
StoredUser(email, username, fullname, password) ==
    [email |-> email, username |-> username, fullname |-> fullname,
     password |-> password]

\* set_password: make_password(raw), a hash that is not the raw value
make_password(raw) == [algorithm |-> "pbkdf2_sha256", of |-> raw]
\* check_password: the raw value hashes to the stored value
check_password(raw, encoded) == encoded = make_password(raw)

\* the accounts of the users that exist from the start, registered with these
\* emails and names and the password "p", each with the token of its
\* registration
EmptyDb ==
    [users |-> UserIds, boards |-> <<>>, nextBoardId |-> 1, tasks |-> <<>>,
     nextTaskId |-> 1, comments |-> <<>>, nextCommentId |-> 1,
     accounts |-> [u \in UserIds |->
                     LET UserEmails == <<"u1@x", "u2@x", "u3@x">>
                         UserNames == <<"u1", "u2", "u3">>
                     IN  StoredUser(UserEmails[u], UserNames[u], UserNames[u],
                                    make_password("p"))],
     nextUserId |-> 4,
     tokens |-> {[key |-> u, user |-> u] : u \in UserIds},
     nextTokenKey |-> 4]

TasksOf(d, b) == {t \in DOMAIN d.tasks : d.tasks[t].board = b}
CommentsOf(d, t) == {c \in DOMAIN d.comments : d.comments[c].task = t}

(* ------------------------- board permissions --------------------------- *)
IsOwnerOrMemberNoOwner(user, obj) == user \in obj.members

\* IsOwnerOrMember.has_object_permission
IsOwnerOrMember(user, obj) ==
    IF obj.owner = user THEN TRUE
    ELSE IF user \in obj.members THEN TRUE
    ELSE FALSE

(* ------------------------- board serializers --------------------------- *)
get_member_count(d, b) == Cardinality(d.boards[b].members)
get_ticket_count(d, b) == Cardinality(TasksOf(d, b))
get_tasks_to_do_count(d, b) ==
    Cardinality({t \in TasksOf(d, b) : d.tasks[t].status = "TODO"})
get_tasks_high_prio_count(d, b) ==
    Cardinality({t \in TasksOf(d, b) : d.tasks[t].priority = "HIGH"})

BoardSerializer(d, b) ==
    [id |-> b, title |-> d.boards[b].title,
     member_count |-> get_member_count(d, b),
     ticket_count |-> get_ticket_count(d, b),
     tasks_to_do_count |-> get_tasks_to_do_count(d, b),
     tasks_high_prio_count |-> get_tasks_high_prio_count(d, b),
     owner_id |-> d.boards[b].owner]

BoardDetailSerializer(d, b) ==
    [NoBody EXCEPT !.title = d.boards[b].title, !.owner_id = d.boards[b].owner,
                   !.members = d.boards[b].members, !.tasks = TasksOf(d, b)]

(* ------------- BoardListCreateView.get_queryset ------------------------ *)
\* the number of rows of board b in
\*   board LEFT OUTER JOIN board_members
\*   WHERE board.owner_id = user OR board_members.user_id = user
MatchingRows(d, user, b) ==
    LET obj == d.boards[b]
        joined == IF obj.members = {} THEN {None} ELSE obj.members
    IN  Cardinality({m \in joined : obj.owner = user \/ m = user})

Repeat(x, n) == [i \in 1..n |-> x]

\* the rows of boards 1..n, in id order
RECURSIVE JoinRows(_, _, _)
JoinRows(d, user, n) ==
    IF n = 0 THEN <<>>
    ELSE JoinRows(d, user, n - 1) \o
         (IF n \in DOMAIN d.boards THEN Repeat(n, MatchingRows(d, user, n))
          ELSE <<>>)

DistinctOff(s) == s

\* QuerySet.distinct()
RECURSIVE Distinct(_)
Distinct(s) ==
    IF s = <<>> THEN <<>>
    ELSE LET front == Distinct(SubSeq(s, 1, Len(s) - 1))
             last == s[Len(s)]
         IN  IF last \in Range(front) THEN front ELSE Append(front, last)

get_queryset(d, user) == Distinct(JoinRows(d, user, d.nextBoardId - 1))

(* ----------------------------- cascades -------------------------------- *)
\* Task.board on_delete=CASCADE
TasksAfterBoardDelete(d, B) ==
    Restrict(d.tasks, {t \in DOMAIN d.tasks : d.tasks[t].board \notin B})
CommentsKeptAfterTaskDelete(d, T) == d.comments

\* TaskComment.task on_delete=CASCADE
CommentsAfterTaskDelete(d, T) ==
    Restrict(d.comments, {c \in DOMAIN d.comments : d.comments[c].task \notin T})

\* Model.delete() of the boards B with its cascade
DeleteBoards(d, B) ==
    [d EXCEPT !.boards = Restrict(@, DOMAIN @ \ B),
              !.tasks = TasksAfterBoardDelete(d, B),
              !.comments = CommentsAfterTaskDelete(d,
                               {t \in DOMAIN d.tasks : d.tasks[t].board \in B})]

SetMembersMerge(old, new) == old \cup new

\* instance.members.set(users)
SetMembers(old, new) == new

(* --------------------------- board handlers ---------------------------- *)
\* POST /api/boards/
BoardListCreateView_post(d, actor, title, m) ==
    IF \/ title \in {ABSENT, ""}
       \/ m.kind # "list"
       \/ ~(Range(m.ids) \subseteq d.users)
    THEN Result(d, Response("createBoard", actor, None, 400, NoBody))
    ELSE Result([d EXCEPT !.boards = @ @@ (d.nextBoardId :>
                              [title |-> title, owner |-> actor,
                               members |-> Range(m.ids)]),
                          !.nextBoardId = @ + 1],
                Response("createBoard", actor, d.nextBoardId, 201, NoBody))

\* GET /api/boards/
BoardListCreateView_get(d, actor) ==
    Result(d, Response("listBoards", actor, None, 200,
                       [NoBody EXCEPT !.results =
                           [i \in DOMAIN get_queryset(d, actor) |->
                               BoardSerializer(d, get_queryset(d, actor)[i])]]))

\* GET /api/boards/<pk>/
BoardDetailView_get(d, actor, b) ==
    IF b \notin DOMAIN d.boards
    THEN Result(d, Response("getBoard", actor, b, 404, NoBody))
    ELSE IF ~IsOwnerOrMember(actor, d.boards[b])
    THEN Result(d, Response("getBoard", actor, b, 403, NoBody))
    ELSE Result(d, Response("getBoard", actor, b, 200, BoardDetailSerializer(d, b)))

PatchResponse(d, actor, b) ==
    Response("patchBoard", actor, b, 200,
             [NoBody EXCEPT !.title = d.boards[b].title,
                            !.owner_id = d.boards[b].owner,
                            !.members = d.boards[b].members])

BoardValidatedDataOwnerWritable(body) ==
    [f \in (DOMAIN body \cap {"title"})
            \cup (IF "owner_id" \in DOMAIN body THEN {"owner"} ELSE {}) |->
        IF f = "owner" THEN body["owner_id"] ELSE body[f]]

\* BoardDetailSerializer.validated_data of a partial update: of the fields of Meta
\* only title is written; owner_id is read_only, owner is no field
BoardValidatedData(body) == Restrict(body, DOMAIN body \cap {"title"})

\* ModelSerializer.update: setattr for every validated field, then save()
BoardPerformUpdate(board, validated) ==
    [f \in DOMAIN board |-> IF f \in DOMAIN validated THEN validated[f] ELSE board[f]]

\* PATCH /api/boards/<pk>/ with the body's fields other than members in body
BoardDetailView_patchBody(d, actor, b, body, m) ==
    IF b \notin DOMAIN d.boards
    THEN Result(d, Response("patchBoard", actor, b, 404, NoBody))
    ELSE IF ~IsOwnerOrMember(actor, d.boards[b])
    THEN Result(d, Response("patchBoard", actor, b, 403, NoBody))
    ELSE IF "title" \in DOMAIN body /\ body["title"] = ""
    THEN \* serializer.is_valid(raise_exception=True)
         Result(d, Response("patchBoard", actor, b, 400, NoBody))
    ELSE LET \* self.perform_update(serializer)
             saved == [d EXCEPT !.boards[b] =
                          BoardPerformUpdate(@, BoardValidatedData(body))]
             found == Range(m.ids) \cap d.users
         IN  IF m.kind \in {"absent", "null"}
             THEN Result(saved, PatchResponse(saved, actor, b))
             ELSE IF m.kind # "list"
             THEN Result(saved, Response("patchBoard", actor, b, 400,
                                         Detail("members must be a list of IDs")))
             ELSE IF Cardinality(found) # Cardinality(Range(m.ids))
             THEN Result(saved, Response("patchBoard", actor, b, 400,
                                         Detail("one or more member IDs are invalid")))
             ELSE LET set == [saved EXCEPT !.boards[b].members = SetMembers(@, found)]
                  IN  Result(set, PatchResponse(set, actor, b))

\* PATCH /api/boards/<pk>/ with a body of title (or none) and members
BoardDetailView_patch(d, actor, b, title, m) ==
    BoardDetailView_patchBody(d, actor, b,
                              IF title = ABSENT THEN <<>> ELSE [title |-> title], m)

\* DELETE /api/boards/<pk>/
BoardDetailView_delete(d, actor, b) ==
    IF b \notin DOMAIN d.boards
    THEN Result(d, Response("deleteBoard", actor, b, 404, NoBody))
    ELSE IF ~IsOwnerOrMember(actor, d.boards[b])
    THEN Result(d, Response("deleteBoard", actor, b, 403, NoBody))
    ELSE Result(DeleteBoards(d, {b}), Response("deleteBoard", actor, b, 204, NoBody))

(* --------------------------- task permissions ------------------------- *)
OnBoard(d, user, b) ==
    user = d.boards[b].owner \/ user \in d.boards[b].members

IsBoardMemberForEveryMethod(d, method, user, obj) ==
    LET is_member == OnBoard(d, user, obj.board)
    IN  IF method \in {"PATCH", "PUT"} THEN is_member
        ELSE IF method = "DELETE"
        THEN is_member /\ (obj.reviewer = user \/ d.boards[obj.board].owner = user)
        ELSE TRUE

\* IsBoardMemberForUpdateOrReviewerOrOwnerForDelete.has_object_permission
IsBoardMemberForUpdateOrReviewerOrOwnerForDelete(d, method, user, obj) ==
    LET is_member == OnBoard(d, user, obj.board)
    IN  IF method \in {"PATCH", "PUT"} THEN is_member
        ELSE IF method = "DELETE"
        THEN obj.reviewer = user \/ d.boards[obj.board].owner = user
        ELSE TRUE

IsBoardMemberOfTaskOwnerOnly(d, user, obj) == d.boards[obj.board].owner = user

\* IsBoardMemberOfTask.has_object_permission
IsBoardMemberOfTask(d, user, obj) == OnBoard(d, user, obj.board)

\* IsAuthorOfTaskComment.has_object_permission
IsAuthorOfTaskComment(user, obj) == obj.author = user

(* --------------------------- task serializer --------------------------- *)
SimpleFields == {"title", "description", "status", "priority", "due_date"}

\* serializer.is_valid: the choices and the non-blank title of the model
ValidData(data) ==
    /\ "title" \in DOMAIN data => data["title"] # ""
    /\ "status" \in DOMAIN data => data["status"] \in Statuses
    /\ "priority" \in DOMAIN data => data["priority"] \in Priorities

FieldOr(data, f, default) == IF f \in DOMAIN data THEN data[f] ELSE default

PermissionDeniedAnyUser(d, user, b) == user \notin d.users

\* TaskSerializer._check_user_membership: TRUE when PermissionDenied is raised
PermissionDenied(d, user, b) ==
    ~(user = d.boards[b].owner \/ user \in d.boards[b].members)

GetValidUserAnyUser(d, user_id, b) == user_id = None \/ user_id \in d.users

\* TaskSerializer._get_valid_user: TRUE when the id passes (None passes)
GetValidUser(d, user_id, b) ==
    \/ user_id = None
    \/ /\ user_id \in d.users
       /\ (user_id = d.boards[b].owner \/ user_id \in d.boards[b].members)

\* TaskSerializer._create_task; the model's defaults fill what is not given
CreateTaskRow(b, data, assignee, reviewer) ==
    [board |-> b,
     title |-> data["title"],
     description |-> FieldOr(data, "description", ""),
     status |-> FieldOr(data, "status", "to-do"),
     priority |-> FieldOr(data, "priority", "medium"),
     assignee |-> assignee,
     reviewer |-> reviewer,
     due_date |-> FieldOr(data, "due_date", None),
     comments_count |-> 0]

\* TaskSerializer._update_simple_fields
UpdateSimpleFields(obj, data) ==
    [f \in DOMAIN obj |->
        IF f \in SimpleFields /\ f \in DOMAIN data THEN data[f] ELSE obj[f]]

MaybeAssignUserNullKeeps(obj, input, attr_name) ==
    IF ~input.given \/ input.id = None THEN obj
    ELSE [obj EXCEPT ![attr_name] = input.id]

\* TaskSerializer._maybe_assign_user, once the id has passed _get_valid_user
MaybeAssignUser(obj, input, attr_name) ==
    IF ~input.given THEN obj ELSE [obj EXCEPT ![attr_name] = input.id]

(* ---------------------------- task handlers ---------------------------- *)
AssignedOnOwnBoardsOnly(d, user) ==
    {t \in DOMAIN d.tasks : d.tasks[t].assignee = user
                              /\ OnBoard(d, user, d.tasks[t].board)}

\* AssignedTaskListView.get_queryset: Task.objects.filter(assignee=user)
AssignedTaskListView_get_queryset(d, user) ==
    {t \in DOMAIN d.tasks : d.tasks[t].assignee = user}

\* ReviewingTaskListView.get_queryset: Task.objects.filter(reviewer=user)
ReviewingTaskListView_get_queryset(d, user) ==
    {t \in DOMAIN d.tasks : d.tasks[t].reviewer = user}

\* GET /api/tasks/assigned-to-me/
AssignedTaskListView_get(d, actor) ==
    Result(d, Response("listAssignedTo", actor, None, 200,
                       [NoBody EXCEPT !.tasks =
                           AssignedTaskListView_get_queryset(d, actor)]))

\* GET /api/tasks/reviewing/
ReviewingTaskListView_get(d, actor) ==
    Result(d, Response("listReviewing", actor, None, 200,
                       [NoBody EXCEPT !.tasks =
                           ReviewingTaskListView_get_queryset(d, actor)]))

CreateTaskView_postMembershipFirst(d, actor, b, data, aid, rid) ==
    IF "title" \notin DOMAIN data \/ ~ValidData(data)
    THEN Result(d, Response("createTask", actor, b, 400, Detail("invalid")))
    ELSE IF b \notin DOMAIN d.boards
    THEN Result(d, Response("createTask", actor, b, 403, NoBody))
    ELSE IF PermissionDenied(d, actor, b)
    THEN Result(d, Response("createTask", actor, b, 403, NoBody))
    ELSE IF ~GetValidUser(d, aid.id, b) \/ ~GetValidUser(d, rid.id, b)
    THEN Result(d, Response("createTask", actor, b, 400, Detail("invalid user")))
    ELSE Result([d EXCEPT !.tasks = @ @@ (d.nextTaskId :>
                              CreateTaskRow(b, data, aid.id, rid.id)),
                          !.nextTaskId = @ + 1],
                Response("createTask", actor, b, 201,
                         [NoBody EXCEPT !.created = d.nextTaskId]))

\* POST /api/tasks/
CreateTaskView_post(d, actor, b, data, aid, rid) ==
    IF "title" \notin DOMAIN data \/ ~ValidData(data)
    THEN Result(d, Response("createTask", actor, b, 400, Detail("invalid")))
    ELSE IF b \notin DOMAIN d.boards
    THEN Result(d, Response("createTask", actor, b, 404, NoBody))
    ELSE IF PermissionDenied(d, actor, b)
    THEN Result(d, Response("createTask", actor, b, 403, NoBody))
    ELSE IF ~GetValidUser(d, aid.id, b)
    THEN Result(d, Response("createTask", actor, b, 400, Detail("assignee_id")))
    ELSE IF ~GetValidUser(d, rid.id, b)
    THEN Result(d, Response("createTask", actor, b, 400, Detail("reviewer_id")))
    ELSE Result([d EXCEPT !.tasks = @ @@ (d.nextTaskId :>
                              CreateTaskRow(b, data, aid.id, rid.id)),
                          !.nextTaskId = @ + 1],
                Response("createTask", actor, b, 201,
                         [NoBody EXCEPT !.created = d.nextTaskId]))

TaskDetailView_patchSavesAsItGoes(d, actor, t, data, aid, rid) ==
    IF t \notin DOMAIN d.tasks
    THEN Result(d, Response("updateTask", actor, t, 404, NoBody))
    ELSE LET obj == d.tasks[t]
             b == obj.board
         IN  IF ~IsBoardMemberForUpdateOrReviewerOrOwnerForDelete(d, "PATCH", actor, obj)
             THEN Result(d, Response("updateTask", actor, t, 403, NoBody))
             ELSE IF ~ValidData(data)
             THEN Result(d, Response("updateTask", actor, t, 400, Detail("invalid")))
             ELSE IF PermissionDenied(d, actor, b)
             THEN Result(d, Response("updateTask", actor, t, 403, NoBody))
             ELSE IF aid.given /\ ~GetValidUser(d, aid.id, b)
             THEN Result(d, Response("updateTask", actor, t, 400, Detail("assignee_id")))
             ELSE IF rid.given /\ ~GetValidUser(d, rid.id, b)
             THEN Result([d EXCEPT !.tasks[t] = MaybeAssignUser(obj, aid, "assignee")],
                         Response("updateTask", actor, t, 400, Detail("reviewer_id")))
             ELSE LET assigned == MaybeAssignUser(MaybeAssignUser(obj, aid, "assignee"),
                                                  rid, "reviewer")
                      saved == UpdateSimpleFields(assigned, data)
                  IN  Result([d EXCEPT !.tasks[t] = saved],
                             Response("updateTask", actor, t, 200, NoBody))

\* PATCH /api/tasks/<pk>/
TaskDetailView_patch(d, actor, t, data, aid, rid) ==
    IF t \notin DOMAIN d.tasks
    THEN Result(d, Response("updateTask", actor, t, 404, NoBody))
    ELSE LET obj == d.tasks[t]
             b == obj.board
         IN  IF ~IsBoardMemberForUpdateOrReviewerOrOwnerForDelete(d, "PATCH", actor, obj)
             THEN Result(d, Response("updateTask", actor, t, 403, NoBody))
             ELSE IF ~ValidData(data)
             THEN Result(d, Response("updateTask", actor, t, 400, Detail("invalid")))
             ELSE IF PermissionDenied(d, actor, b)
             THEN Result(d, Response("updateTask", actor, t, 403, NoBody))
             ELSE IF aid.given /\ ~GetValidUser(d, aid.id, b)
             THEN Result(d, Response("updateTask", actor, t, 400, Detail("assignee_id")))
             ELSE IF rid.given /\ ~GetValidUser(d, rid.id, b)
             THEN Result(d, Response("updateTask", actor, t, 400, Detail("reviewer_id")))
             ELSE LET assigned == MaybeAssignUser(MaybeAssignUser(obj, aid, "assignee"),
                                                  rid, "reviewer")
                      saved == UpdateSimpleFields(assigned, data)
                  IN  Result([d EXCEPT !.tasks[t] = saved],
                             Response("updateTask", actor, t, 200, NoBody))

\* Model.delete() of the tasks T with its cascade
DeleteTasks(d, T) ==
    [d EXCEPT !.tasks = Restrict(@, DOMAIN @ \ T),
              !.comments = CommentsAfterTaskDelete(d, T)]

\* DELETE /api/tasks/<pk>/
TaskDetailView_delete(d, actor, t) ==
    IF t \notin DOMAIN d.tasks
    THEN Result(d, Response("deleteTask", actor, t, 404, NoBody))
    ELSE IF ~IsBoardMemberForUpdateOrReviewerOrOwnerForDelete(d, "DELETE", actor,
                                                              d.tasks[t])
    THEN Result(d, Response("deleteTask", actor, t, 403, NoBody))
    ELSE Result(DeleteTasks(d, {t}), Response("deleteTask", actor, t, 204, NoBody))

(* ------------------------- comment statements -------------------------- *)
\* TaskComment.objects.create(task=task, author=request.user, ...)
InsertComment(d, t, author, content) ==
    [d EXCEPT !.comments = @ @@ (d.nextCommentId :>
                  [task |-> t, author |-> author, content |-> content]),
              !.nextCommentId = @ + 1]

IncrementCountEveryTask(d, t) ==
    [d EXCEPT !.tasks = [u \in DOMAIN @ |->
                            [@[u] EXCEPT !.comments_count = @ + 1]]]

\* Task.objects.filter(pk=task.pk).update(comments_count=F("comments_count") + 1)
IncrementCount(d, t) ==
    IF t \in DOMAIN d.tasks
    THEN [d EXCEPT !.tasks[t].comments_count = @ + 1]
    ELSE d

\* instance.delete(): DELETE ... WHERE id = c, whether or not the row is there
DeleteCommentRow(d, c) ==
    [d EXCEPT !.comments = Restrict(@, DOMAIN @ \ {c})]

\* comments_count is a PositiveIntegerField: the column carries CHECK (>= 0),
\* and an UPDATE that would break it raises IntegrityError
CheckViolated(d, t) == t \in DOMAIN d.tasks /\ d.tasks[t].comments_count = 0

DecrementCountMissing(d, t) == d

\* Task.objects.filter(pk=task_id).update(comments_count=F("comments_count") - 1)
DecrementCount(d, t) ==
    IF t \in DOMAIN d.tasks /\ ~CheckViolated(d, t)
    THEN [d EXCEPT !.tasks[t].comments_count = @ - 1]
    ELSE d

(* --------------------------- comment handlers -------------------------- *)
\* TaskCommentView.post up to check_object_permissions: the status it raises,
\* 200 when it goes on
GetTaskObject(d, actor, t) ==
    IF t \notin DOMAIN d.tasks THEN 404
    ELSE IF ~IsBoardMemberOfTask(d, actor, d.tasks[t]) THEN 403
    ELSE 200

\* TaskCommentCreateSerializer.is_valid: content is a required CharField
ValidContent(content) == content # ""

\* POST /api/tasks/<pk>/comments/
TaskCommentView_post(d, actor, t, content) ==
    IF GetTaskObject(d, actor, t) # 200
    THEN Result(d, Response("createComment", actor, t,
                            GetTaskObject(d, actor, t), NoBody))
    ELSE IF ~ValidContent(content)
    THEN Result(d, Response("createComment", actor, t, 400, Detail("content")))
    ELSE Result(IncrementCount(InsertComment(d, t, actor, content), t),
                Response("createComment", actor, t, 201,
                         [NoBody EXCEPT !.created = d.nextCommentId]))

GetCommentObjectOfAnyTask(d, actor, t, c) ==
    IF c \notin DOMAIN d.comments THEN 404
    ELSE IF ~IsAuthorOfTaskComment(actor, d.comments[c]) THEN 403
    ELSE 200

GetCommentObjectOnBoardOnly(d, actor, t, c) ==
    IF t \notin DOMAIN d.tasks THEN 404
    ELSE IF c \notin DOMAIN d.comments \/ d.comments[c].task # t THEN 404
    ELSE IF ~IsAuthorOfTaskComment(actor, d.comments[c]) THEN 403
    ELSE IF ~OnBoard(d, actor, d.tasks[t].board) THEN 403
    ELSE 200

\* TaskCommentDetailView.get_object: the status it raises, 200 when it returns
GetCommentObject(d, actor, t, c) ==
    IF t \notin DOMAIN d.tasks THEN 404
    ELSE IF c \notin DOMAIN d.comments \/ d.comments[c].task # t THEN 404
    ELSE IF ~IsAuthorOfTaskComment(actor, d.comments[c]) THEN 403
    ELSE 200

\* TaskCommentDetailView.perform_destroy
PerformDestroy(d, c, task_id) ==
    LET deleted == DeleteCommentRow(d, c)
    IN  Result(DecrementCount(deleted, task_id),
               IF CheckViolated(deleted, task_id) THEN 500 ELSE 204)

\* DELETE /api/tasks/<pk>/comments/<comment_pk>/
TaskCommentDetailView_delete(d, actor, t, c) ==
    LET found == GetCommentObject(d, actor, t, c)
    IN  IF found # 200
        THEN Result(d, Response("deleteComment", actor, c, found, NoBody))
        ELSE LET done == PerformDestroy(d, c, d.comments[c].task)
             IN  Result(done.db, Response("deleteComment", actor, c, done.resp, NoBody))

(* ------------------------- deleting an account ------------------------- *)
\* Board.owner on_delete=CASCADE: the boards that go with the user
BoardsOwnedBy(d, u) == {b \in DOMAIN d.boards : d.boards[b].owner = u}

\* Task.assignee / Task.reviewer on_delete=SET_NULL
SetNull(task, u) ==
    [task EXCEPT !.assignee = IF @ = u THEN None ELSE @,
                 !.reviewer = IF @ = u THEN None ELSE @]

\* TaskComment.author on_delete=CASCADE
CommentsAfterAuthorDelete(d, u) ==
    Restrict(d.comments, {c \in DOMAIN d.comments : d.comments[c].author # u})

\* User.delete(): the collector follows every on_delete of the models
UserDelete(d, u) ==
    LET gone == DeleteBoards(d, BoardsOwnedBy(d, u))
    IN  [gone EXCEPT
           !.users = @ \ {u},
           !.accounts = Restrict(@, DOMAIN @ \ {u}),
           !.tokens = {k \in @ : k.user # u},
           !.boards = [b \in DOMAIN gone.boards |->
                          [gone.boards[b] EXCEPT !.members = @ \ {u}]],
           !.tasks = [t \in DOMAIN gone.tasks |-> SetNull(gone.tasks[t], u)],
           !.comments = CommentsAfterAuthorDelete(gone, u)]

(* ----------------------- registration and login ---------------------- *)
\* a JSON null in a request body
NULL == "<null>"
Emails == {"a@x", "b@x"}
Fullnames == {"n", "m"}
Passwords == {"p", "q"}
\* the values of a request body: key absent, null, blank, a malformed email
EmailInputs == {ABSENT, NULL, "", "bad"} \cup Emails
FullnameInputs == {ABSENT, NULL, ""} \cup Fullnames
PasswordInputs == {ABSENT, NULL, ""} \cup Passwords

\* RegistrationSerializer.is_valid: fullname and email are optional and may be
\* blank as in the model (fullname may be null); email must be well-formed;
\* password and repeated_password are required and not blank
RegistrationIsValid(fullname, email, password, repeated_password) ==
    /\ email \notin {NULL, "bad"}
    /\ password \notin {ABSENT, NULL, ""}
    /\ repeated_password \notin {ABSENT, NULL, ""}

PasswordsMatchAlways(pw, repeated_pw) == TRUE

\* RegistrationSerializer.save: pw != repeated_pw raises ValidationError
PasswordsMatch(pw, repeated_pw) == pw = repeated_pw

\* User.objects.filter(email=...).exists()
EmailExists(d, email) ==
    \E u \in DOMAIN d.accounts : d.accounts[u].email = email

\* the status of save()'s check of the email: validated_data['email'] raises
\* KeyError when the key was absent
ExistsCheck(d, email) ==
    IF email = ABSENT THEN 500
    ELSE IF EmailExists(d, email) THEN 400
    ELSE 200

\* account.save() raises: validated_data['fullname'] KeyError, username NULL
\* (NOT NULL) or already stored (UNIQUE)
SaveRaises(d, fullname) ==
    \/ fullname \in {ABSENT, NULL}
    \/ \E u \in DOMAIN d.accounts : d.accounts[u].username = fullname

\* account = User(email, username=fullname, fullname); set_password; save()
InsertUser(d, fullname, email, pw) ==
    [d EXCEPT !.users = @ \cup {d.nextUserId},
              !.accounts = @ @@ (d.nextUserId :>
                  StoredUser(email, fullname, fullname, make_password(pw))),
              !.nextUserId = @ + 1]

\* Token.objects.get_or_create(user=user): the store after it and the key
TokensOf(d, user) == {k \in d.tokens : k.user = user}
Token_get_or_create(d, user) ==
    IF TokensOf(d, user) # {}
    THEN [db |-> d, key |-> (CHOOSE k \in TokensOf(d, user) : TRUE).key]
    ELSE [db |-> [d EXCEPT !.tokens = @ \cup {[key |-> d.nextTokenKey,
                                               user |-> user]},
                           !.nextTokenKey = @ + 1],
          key |-> d.nextTokenKey]

TokenResponse(op, user, status, key) ==
    Response(op, None, user, status, [NoBody EXCEPT !.token = key])

\* POST /api/registration/
RegistrationView_post(d, fullname, email, password, repeated_password) ==
    IF ~RegistrationIsValid(fullname, email, password, repeated_password)
    THEN Result(d, Response("register", None, None, 400, Detail("invalid")))
    ELSE IF ~PasswordsMatch(password, repeated_password)
    THEN Result(d, Response("register", None, None, 400,
                            Detail("passwords dont match")))
    ELSE IF ExistsCheck(d, email) # 200
    THEN Result(d, Response("register", None, None, ExistsCheck(d, email),
                            Detail("email")))
    ELSE IF SaveRaises(d, fullname)
    THEN Result(d, Response("register", None, None, 500, NoBody))
    ELSE LET token == Token_get_or_create(InsertUser(d, fullname, email, password),
                                          d.nextUserId)
         IN  Result(token.db, TokenResponse("register", d.nextUserId, 201, token.key))

\* EmailAuthTokenSerializer fields: email a well-formed EmailField, password a
\* CharField, both required and not blank
LoginIsValid(email, password) ==
    /\ email \notin {ABSENT, NULL, "", "bad"}
    /\ password \notin {ABSENT, NULL, ""}

\* EmailBackend.authenticate: the user, None, or the MultipleObjectsReturned
\* that User.objects.get raises and nothing catches
EmailBackend_authenticate(d, email, password) ==
    LET found == {u \in DOMAIN d.accounts : d.accounts[u].email = email}
    IN  IF email = NULL \/ password = NULL
        THEN [raised |-> FALSE, user |-> None]
        ELSE IF found = {} THEN [raised |-> FALSE, user |-> None]
        ELSE IF Cardinality(found) > 1 THEN [raised |-> TRUE, user |-> None]
        ELSE LET user == CHOOSE u \in found : TRUE
             IN  IF check_password(password, d.accounts[user].password)
                 THEN [raised |-> FALSE, user |-> user]
                 ELSE [raised |-> FALSE, user |-> None]

\* django.contrib.auth.authenticate with email and password, which hands the
\* credentials to EmailBackend
authenticate(d, email, password) == EmailBackend_authenticate(d, email, password)

\* POST /api/login/
CustomLoginView_post(d, email, password) ==
    IF ~LoginIsValid(email, password)
    THEN Result(d, Response("login", None, None, 400, Detail("invalid")))
    ELSE IF authenticate(d, email, password).raised
    THEN Result(d, Response("login", None, None, 500, NoBody))
    ELSE IF authenticate(d, email, password).user = None
    THEN Result(d, Response("login", None, None, 400,
                            Detail("Unable to log in with provided credentials.")))
    ELSE LET user == authenticate(d, email, password).user
             token == Token_get_or_create(d, user)
         IN  Result(token.db, TokenResponse("login", user, 200, token.key))

(* ------------------------------ actions -------------------------------- *)
\* a request handled from start to end
Apply(r) ==
    /\ db' = r.db
    /\ resp' = r.resp
    /\ UNCHANGED reqs

\* at most MaxBoards boards, MaxTasks tasks and MaxComments comments are ever
\* created: a create that would add one more is not taken
CreateBoard(actor, title, m) ==
    /\ actor \in db.users
    /\ LET r == BoardListCreateView_post(db, actor, title, m)
       IN  r.db.nextBoardId <= MaxBoards + 1 /\ Apply(r)

ListBoards(actor) ==
    /\ actor \in db.users
    /\ Apply(BoardListCreateView_get(db, actor))

GetBoard(actor, b) ==
    /\ actor \in db.users
    /\ Apply(BoardDetailView_get(db, actor, b))

PatchBoard(actor, b, title, m) ==
    /\ actor \in db.users
    /\ Apply(BoardDetailView_patch(db, actor, b, title, m))

DeleteBoard(actor, b) ==
    /\ actor \in db.users
    /\ Apply(BoardDetailView_delete(db, actor, b))

CreateTask(actor, b, data, aid, rid) ==
    /\ actor \in db.users
    /\ LET r == CreateTaskView_post(db, actor, b, data, aid, rid)
       IN  r.db.nextTaskId <= MaxTasks + 1 /\ Apply(r)

UpdateTask(actor, t, data, aid, rid) ==
    /\ actor \in db.users
    /\ Apply(TaskDetailView_patch(db, actor, t, data, aid, rid))

DeleteTask(actor, t) ==
    /\ actor \in db.users
    /\ Apply(TaskDetailView_delete(db, actor, t))

CreateComment(actor, t, content) ==
    /\ actor \in db.users
    /\ LET r == TaskCommentView_post(db, actor, t, content)
       IN  r.db.nextCommentId <= MaxComments + 1 /\ Apply(r)

DeleteComment(actor, t, c) ==
    /\ actor \in db.users
    /\ Apply(TaskCommentDetailView_delete(db, actor, t, c))

ListAssignedTo(actor) ==
    /\ actor \in db.users
    /\ Apply(AssignedTaskListView_get(db, actor))

ListReviewing(actor) ==
    /\ actor \in db.users
    /\ Apply(ReviewingTaskListView_get(db, actor))

\* the account u is deleted (admin site or ORM); the response is none
DeleteUser(u) ==
    /\ u \in db.users
    /\ Apply(Result(UserDelete(db, u), Response("deleteUser", None, u, 204, NoBody)))

\* at most MaxUsers accounts are ever registered
Register(fullname, email, password, repeated_password) ==
    LET r == RegistrationView_post(db, fullname, email, password, repeated_password)
    IN  r.db.nextUserId <= MaxUsers + 1 /\ Apply(r)

Login(email, password) == Apply(CustomLoginView_post(db, email, password))

\* the ids a request may name: every id handed out and the next one
BoardTargets == 1..db.nextBoardId
TaskTargets == 1..db.nextTaskId
CommentTargets == 1..db.nextCommentId


(* --------- one board: detail, patch and delete (SpecBoard) ------------- *)
\* a task created with a title only
DefaultTask(b) == CreateTaskRow(b, [title |-> "a"], None, None)

\* a board as POST /api/boards/ leaves it, with or without a task on it
InitBoard ==
    /\ \E owner \in UserIds, ms \in SUBSET UserIds, withTask \in BOOLEAN :
         db = [EmptyDb EXCEPT
                 !.boards = (1 :> [title |-> "a", owner |-> owner, members |-> ms]),
                 !.nextBoardId = 2,
                 !.tasks = IF withTask THEN (1 :> DefaultTask(1)) ELSE <<>>,
                 !.nextTaskId = IF withTask THEN 2 ELSE 1]
    /\ reqs = <<>>
    /\ resp = NoResponse

NextBoard ==
    \/ \E actor \in UserIds, b \in BoardTargets : GetBoard(actor, b)
    \/ \E actor \in UserIds, b \in BoardTargets, title \in TitleInputs,
          m \in MembersInputs : PatchBoard(actor, b, title, m)
    \/ \E actor \in UserIds, b \in BoardTargets : DeleteBoard(actor, b)

SpecBoard == InitBoard /\ [][NextBoard]_vars

\* a members value the PATCH view is to reject: not a list, or a list with an
\* id of no user
BadMembers(m) ==
    \/ m.kind = "scalar"
    \/ m.kind = "list" /\ ~(Range(m.ids) \subseteq db.users)

\* C4: a PATCH by an owner or member whose members value is not a list, or is a
\* list with an id of no existing user, answers 400 and leaves the board's
\* title and member set as they were, also when it carries a new title.
PatchAllOrNothing ==
    [][\A actor \in UserIds, b \in DOMAIN db.boards, title \in {ABSENT} \cup Titles,
          m \in MembersInputs :
            ( /\ PatchBoard(actor, b, title, m)
              /\ (db.boards[b].owner = actor \/ actor \in db.boards[b].members)
              /\ BadMembers(m) )
            => (resp'.status = 400 /\ db'.boards[b] = db.boards[b])]_vars

\* C6: in every state, for every user u and existing board b: GET, PATCH and
\* DELETE of b by u are refused with 403 exactly when u is neither the owner
\* nor a member; a refused request changes nothing in the store; an allowed
\* GET answers 200, an allowed DELETE (by the owner or by a plain member)
\* answers 204 and removes b, an allowed PATCH with a well-formed body
\* answers 200.
BoardDetailAuthorization ==
    \A u \in db.users, b \in DOMAIN db.boards :
        LET allowed == db.boards[b].owner = u \/ u \in db.boards[b].members
            got == BoardDetailView_get(db, u, b)
            del == BoardDetailView_delete(db, u, b)
        IN  /\ got.resp.status = (IF allowed THEN 200 ELSE 403)
            /\ got.db = db
            /\ del.resp.status = (IF allowed THEN 204 ELSE 403)
            /\ allowed => b \notin DOMAIN del.db.boards
            /\ ~allowed => del.db = db
            /\ \A title \in TitleInputs, m \in MembersInputs :
                  LET pat == BoardDetailView_patch(db, u, b, title, m)
                  IN  /\ (pat.resp.status = 403) <=> ~allowed
                      /\ ~allowed => pat.db = db
                      /\ (allowed /\ title # "" /\ ~BadMembers(m))
                            => pat.resp.status = 200

\* C6 witness: a member who is not the owner has patched the board, and an
\* outsider is there to be refused
MemberPatchedBoard ==
    /\ resp.op = "patchBoard"
    /\ resp.status = 200
    /\ resp.id \in DOMAIN db.boards
    /\ resp.actor # db.boards[resp.id].owner
    /\ resp.actor \in db.boards[resp.id].members
    /\ \E u \in db.users : u # db.boards[resp.id].owner
                             /\ u \notin db.boards[resp.id].members

\* C7: in every state, a successful PATCH of board b with members = S leaves
\* exactly the users of S as members (nothing of the old set is kept);
\* member_count is then the number of distinct ids of S; and every former
\* member outside S who is not the owner is then refused (403) on GET, PATCH
\* and DELETE of b.  (The state after the PATCH is a reachable state, so
\* BoardDetailAuthorization gives the refusal for every PATCH body and in
\* every later state in which the user has not been put back.)
MembershipReplaced ==
    \A actor \in db.users, b \in DOMAIN db.boards, title \in TitleInputs,
       m \in MembersInputs :
        LET pat == BoardDetailView_patch(db, actor, b, title, m)
            after == pat.db
        IN  (pat.resp.status = 200 /\ m.kind = "list") =>
              /\ after.boards[b].members = Range(m.ids)
              /\ get_member_count(after, b) = Cardinality(Range(m.ids))
              /\ \A u \in db.boards[b].members \ Range(m.ids) :
                    u # db.boards[b].owner =>
                      /\ BoardDetailView_get(after, u, b).resp.status = 403
                      /\ BoardDetailView_delete(after, u, b).resp.status = 403
                      /\ BoardDetailView_patch(after, u, b, ABSENT,
                             [kind |-> "absent", ids |-> <<>>]).resp.status = 403

\* C7 witness: a PATCH has cut the member set down to user 2 alone, owner 1 is
\* no member, and user 3 is left neither owner nor member
MembersCutToOne ==
    /\ resp.op = "patchBoard"
    /\ resp.status = 200
    /\ resp.out.members = {2}
    /\ db.boards[resp.id].owner = 1
    /\ get_member_count(db, resp.id) = 1
    /\ 3 \notin db.boards[resp.id].members

(* ------------- boards created and listed (SpecList) -------------------- *)
\* the empty database with the registered users
Init ==
    /\ db = EmptyDb
    /\ reqs = <<>>
    /\ resp = NoResponse

ListInputs == {m \in MembersInputs : m.kind = "list"}

\* lists of existing users without repetition
ValidLists ==
    {m \in ListInputs : /\ Range(m.ids) \subseteq UserIds
                        /\ Cardinality(Range(m.ids)) = Len(m.ids)}

NextList ==
    \/ \E actor \in UserIds, m \in ListInputs : CreateBoard(actor, "a", m)
    \/ \E actor \in UserIds : ListBoards(actor)

SpecList == Init /\ [][NextList]_vars

\* the board ids of a list response, in the order returned
ListedIds(r) == [i \in DOMAIN r.out.results |-> r.out.results[i].id]
Occurrences(seq, x) == Cardinality({i \in DOMAIN seq : seq[i] = x})

\* C5: in every state, for every user u and board b: b is in the list GET
\* /api/boards/ returns to u exactly when u is b's owner or one of b's members,
\* and b is there at most once (also when u is both).
VisibleBoardsExact ==
    \A u \in db.users, b \in DOMAIN db.boards :
        LET listed == ListedIds(BoardListCreateView_get(db, u).resp)
        IN  /\ (Occurrences(listed, b) >= 1)
                <=> (db.boards[b].owner = u \/ u \in db.boards[b].members)
            /\ Occurrences(listed, b) <= 1

\* C5 witness: the list was returned to a user who owns a board of which he
\* and another user are members (the join has two rows of that board for him)
ListedOwnerAndMember ==
    /\ resp.op = "listBoards"
    /\ \E b \in DOMAIN db.boards :
          /\ db.boards[b].owner = resp.actor
          /\ resp.actor \in db.boards[b].members
          /\ Cardinality(db.boards[b].members) >= 2
          /\ Occurrences(ListedIds(resp), b) = 1

(* ------------- boards with tasks, listed (SpecAgg) --------------------- *)
\* task bodies whose status and priority do and do not count in the aggregates
TaskData == {[title |-> "a", status |-> st, priority |-> pr] :
                st \in {"to-do", "done"}, pr \in {"high", "low"}}

NextAgg ==
    \/ \E actor \in UserIds, m \in ValidLists : CreateBoard(actor, "a", m)
    \/ \E actor \in UserIds, b \in BoardTargets, data \in TaskData :
          CreateTask(actor, b, data, NoUserId, NoUserId)
    \/ \E actor \in UserIds : ListBoards(actor)

SpecAgg == Init /\ [][NextAgg]_vars

\* C8: every board of a list response carries member_count = the number of its
\* members, ticket_count = the number of its tasks, tasks_to_do_count = the
\* number of its tasks of status "to-do" and tasks_high_prio_count = the
\* number of its tasks of priority "high".
ListAggregatesExact ==
    resp.op = "listBoards" =>
        \A i \in DOMAIN resp.out.results :
            LET row == resp.out.results[i]
                on == {t \in DOMAIN db.tasks : db.tasks[t].board = row.id}
            IN  /\ row.member_count = Cardinality(db.boards[row.id].members)
                /\ row.ticket_count = Cardinality(on)
                /\ row.tasks_to_do_count =
                      Cardinality({t \in on : db.tasks[t].status = "to-do"})
                /\ row.tasks_high_prio_count =
                      Cardinality({t \in on : db.tasks[t].priority = "high"})

(* ------- tasks of one board whose members change (SpecTask) ------------ *)
\* one board of user 1 with any members and no task yet
InitTask ==
    /\ \E mem \in SUBSET UserIds :
          db = [EmptyDb EXCEPT
                  !.boards = (1 :> [title |-> "a", owner |-> 1, members |-> mem]),
                  !.nextBoardId = 2]
    /\ reqs = <<>>
    /\ resp = NoResponse
TitleOnly == [title |-> "a"]
NoData == <<>>
\* the requests of the behaviours leave the key out, send null, name user 2 (on
\* or off the board as its members change) or name the id of no user
NamedInputs == {u \in UserIdInputs : u.id \in {None, 2, 4}}

NextTask ==
    \/ \E actor \in UserIds, b \in BoardTargets, aid \in NamedInputs,
          rid \in NamedInputs : CreateTask(actor, b, TitleOnly, aid, rid)
    \/ \E actor \in UserIds, t \in TaskTargets, aid \in NamedInputs,
          rid \in NamedInputs : UpdateTask(actor, t, NoData, aid, rid)
    \/ \E actor \in UserIds, b \in BoardTargets, m \in ValidLists :
          PatchBoard(actor, b, ABSENT, m)

SpecTask == InitTask /\ [][NextTask]_vars

\* C9: in every state, for every user, every existing board and every body
\* (well-formed or lacking its title): POST /api/tasks/ creates a task only for
\* the owner or a member of the board; for anyone else it leaves the store as
\* it is and answers 403 (400 when the body is malformed); for the owner or a
\* member with a well-formed body and assignable users it answers 201 and the
\* one new task is on that board.
CreateTaskMembersOnly ==
    \A actor \in db.users, b \in DOMAIN db.boards, data \in {TitleOnly, NoData},
       aid \in UserIdInputs :
      \A rid \in {NoUserId, aid} :
        \A r \in {CreateTaskView_post(db, actor, b, data, aid, rid)} :
        LET allowed == db.boards[b].owner = actor \/ actor \in db.boards[b].members
            new == r.resp.out.created
        IN  /\ ~allowed =>
                  /\ r.db = db
                  /\ r.resp.status = IF data = TitleOnly THEN 403 ELSE 400
            /\ r.db.tasks # db.tasks => (allowed /\ r.resp.status = 201)
            /\ ( /\ allowed
                 /\ data = TitleOnly
                 /\ GetValidUser(db, aid.id, b)
                 /\ GetValidUser(db, rid.id, b) ) => r.resp.status = 201
            /\ r.resp.status = 201 =>
                  /\ allowed
                  /\ new \notin DOMAIN db.tasks
                  /\ DOMAIN r.db.tasks = DOMAIN db.tasks \cup {new}
                  /\ r.db.tasks[new].board = b
                  /\ \A t \in DOMAIN db.tasks : r.db.tasks[t] = db.tasks[t]

\* C9 witness: after a task was created, a user who is neither the owner nor a
\* member of the board asked for another one and was answered 403
OutsiderRefusedTask ==
    /\ resp.op = "createTask"
    /\ resp.status = 403
    /\ resp.id \in DOMAIN db.boards
    /\ resp.actor # db.boards[resp.id].owner
    /\ resp.actor \notin db.boards[resp.id].members
    /\ \E t \in DOMAIN db.tasks : db.tasks[t].board = resp.id

\* a request names a user for the attribute: the key is there and not null
Names(input) == input.given /\ input.id # None
\* the user is there and is the owner or a member of board b
Assignable(id, b) ==
    id \in db.users /\ (id = db.boards[b].owner \/ id \in db.boards[b].members)

\* C10: in every state, for every create and update request: when it succeeds
\* and names an assignee (reviewer), the stored assignee (reviewer) is that
\* user, who exists and is the owner or a member of the task's board in this
\* state; when an allowed actor names an id of no user, or of a user who is
\* neither, the answer is 400 and the store is unchanged; no request stores a
\* new non-null assignee or reviewer that is not such a user.
AssigneeReviewerOnBoard ==
    /\ \A actor \in db.users, b \in DOMAIN db.boards, aid \in UserIdInputs,
          rid \in UserIdInputs :
          \A r \in {CreateTaskView_post(db, actor, b, TitleOnly, aid, rid)} :
          LET new == r.resp.out.created
          IN  /\ r.resp.status = 201 =>
                    /\ r.db.tasks[new].assignee = aid.id
                    /\ r.db.tasks[new].reviewer = rid.id
                    /\ Names(aid) => Assignable(aid.id, b)
                    /\ Names(rid) => Assignable(rid.id, b)
              /\ ( /\ Assignable(actor, b)
                   /\ \/ Names(aid) /\ ~Assignable(aid.id, b)
                      \/ Names(rid) /\ ~Assignable(rid.id, b) )
                 => (r.resp.status = 400 /\ r.db = db)
    /\ \A actor \in db.users, t \in DOMAIN db.tasks, aid \in UserIdInputs,
          rid \in UserIdInputs :
          \A r \in {TaskDetailView_patch(db, actor, t, NoData, aid, rid)} :
          LET b == db.tasks[t].board
              old == db.tasks[t]
              new == r.db.tasks[t]
          IN  /\ r.resp.status = 200 =>
                    /\ Names(aid) => (new.assignee = aid.id /\ Assignable(aid.id, b))
                    /\ Names(rid) => (new.reviewer = rid.id /\ Assignable(rid.id, b))
              /\ (new.assignee # old.assignee /\ new.assignee # None)
                    => Assignable(new.assignee, b)
              /\ (new.reviewer # old.reviewer /\ new.reviewer # None)
                    => Assignable(new.reviewer, b)
              /\ ( /\ Assignable(actor, b)
                   /\ \/ Names(aid) /\ ~Assignable(aid.id, b)
                      \/ Names(rid) /\ ~Assignable(rid.id, b) )
                 => (r.resp.status = 400 /\ r.db = db)

\* C10 witness: an update that named a user outside the board was answered 400
\* on a task whose assignee, set earlier, has since left the board
OffBoardUserRejected ==
    /\ resp.op = "updateTask"
    /\ resp.status = 400
    /\ resp.id \in DOMAIN db.tasks
    /\ db.tasks[resp.id].assignee # None
    /\ ~Assignable(db.tasks[resp.id].assignee, db.tasks[resp.id].board)

(* ----------- completed operations on one task (SpecSeq) ---------------- *)
\* user 1's board with member 2 and one task without comments
InitSeq ==
    /\ db = [EmptyDb EXCEPT
               !.boards = (1 :> [title |-> "a", owner |-> 1, members |-> {2}]),
               !.nextBoardId = 2,
               !.tasks = (1 :> DefaultTask(1)),
               !.nextTaskId = 2]
    /\ reqs = <<>>
    /\ resp = NoResponse

NextSeq ==
    \/ \E actor \in UserIds, t \in TaskTargets, content \in Contents :
          CreateComment(actor, t, content)
    \/ \E actor \in UserIds, t \in TaskTargets, c \in CommentTargets :
          DeleteComment(actor, t, c)
    \/ \E actor \in UserIds, t \in TaskTargets : DeleteTask(actor, t)
    \/ \E actor \in UserIds, b \in BoardTargets : DeleteBoard(actor, b)
    \/ \E actor \in UserIds, b \in BoardTargets, m \in ValidLists :
          PatchBoard(actor, b, ABSENT, m)
    \/ \E u \in UserIds : DeleteUser(u)

SpecSeq == InitSeq /\ [][NextSeq]_vars

\* C1: in every state reached by completed operations, every existing task's
\* comments_count is the number of comments attached to it.
CountIsLiveCount ==
    \A t \in DOMAIN db.tasks :
        db.tasks[t].comments_count = Cardinality(CommentsOf(db, t))

(* ------------- requests that run step by step (reqs) ------------------- *)
\* a request in flight: what the view holds between two statements
Request(kind, actor, task, comment, content, pc, status) ==
    [kind |-> kind, actor |-> actor, task |-> task, comment |-> comment,
     content |-> content, pc |-> pc, status |-> status]

Requests(kind) == {i \in DOMAIN reqs : reqs[i].kind = kind}
Finished(kind) == {i \in Requests(kind) : reqs[i].pc = "done"}

\* TaskCommentView.post, first statements: the task is fetched, the
\* permission checked and the body validated; a refused request ends here
StartCreateComment(actor, t, content) ==
    /\ actor \in db.users
    /\ LET found == GetTaskObject(db, actor, t)
       IN  IF found # 200
           THEN /\ resp' = Response("createComment", actor, t, found, NoBody)
                /\ UNCHANGED <<db, reqs>>
           ELSE IF ~ValidContent(content)
           THEN /\ resp' = Response("createComment", actor, t, 400,
                                    Detail("content"))
                /\ UNCHANGED <<db, reqs>>
           ELSE /\ reqs' = Append(reqs, Request("create", actor, t, None, content,
                                                "insert", None))
                /\ UNCHANGED <<db, resp>>

\* TaskCommentView.post: TaskComment.objects.create(...)
InsertCommentStep(i) ==
    /\ reqs[i].kind = "create"
    /\ reqs[i].pc = "insert"
    /\ db' = InsertComment(db, reqs[i].task, reqs[i].actor, reqs[i].content)
    /\ reqs' = [reqs EXCEPT ![i].comment = db.nextCommentId, ![i].pc = "increment"]
    /\ UNCHANGED resp

\* TaskCommentView.post: the F() update, then the 201 response
IncrementCountStep(i) ==
    /\ reqs[i].kind = "create"
    /\ reqs[i].pc = "increment"
    /\ db' = IncrementCount(db, reqs[i].task)
    /\ reqs' = [reqs EXCEPT ![i].pc = "done", ![i].status = 201]
    /\ resp' = Response("createComment", reqs[i].actor, reqs[i].task, 201,
                        [NoBody EXCEPT !.created = reqs[i].comment])

\* TaskCommentDetailView.get_object; a request it refuses ends here
StartDeleteComment(actor, t, c) ==
    /\ actor \in db.users
    /\ LET found == GetCommentObject(db, actor, t, c)
       IN  IF found # 200
           THEN /\ resp' = Response("deleteComment", actor, c, found, NoBody)
                /\ UNCHANGED <<db, reqs>>
           ELSE /\ reqs' = Append(reqs, Request("delete", actor, db.comments[c].task,
                                                c, "", "delete", None))
                /\ UNCHANGED <<db, resp>>

\* perform_destroy: instance.delete()
DeleteRowStep(i) ==
    /\ reqs[i].kind = "delete"
    /\ reqs[i].pc = "delete"
    /\ db' = DeleteCommentRow(db, reqs[i].comment)
    /\ reqs' = [reqs EXCEPT ![i].pc = "decrement"]
    /\ UNCHANGED resp

\* perform_destroy: the F() update, then the 204 response, or the 500 of an
\* IntegrityError
DecrementCountStep(i) ==
    /\ reqs[i].kind = "delete"
    /\ reqs[i].pc = "decrement"
    /\ db' = DecrementCount(db, reqs[i].task)
    /\ LET status == IF CheckViolated(db, reqs[i].task) THEN 500 ELSE 204
       IN  /\ reqs' = [reqs EXCEPT ![i].pc = "done", ![i].status = status]
           /\ resp' = Response("deleteComment", reqs[i].actor, reqs[i].comment,
                               status, NoBody)

\* user 1's board with member 2; its task holds InitialComments comments of
\* user 1 and counts them
InitCount ==
    /\ db = [EmptyDb EXCEPT
               !.boards = (1 :> [title |-> "a", owner |-> 1, members |-> {2}]),
               !.nextBoardId = 2,
               !.tasks = (1 :> [DefaultTask(1) EXCEPT
                                  !.comments_count = InitialComments]),
               !.nextTaskId = 2,
               !.comments = [c \in 1..InitialComments |->
                               [task |-> 1, author |-> 1, content |-> "c"]],
               !.nextCommentId = InitialComments + 1]
    /\ reqs = <<>>
    /\ resp = NoResponse

(* ---- concurrent creates, then deletes of distinct comments (SpecCount) -- *)
\* the comments some delete request is about
TargetedComments == {reqs[i].comment : i \in Requests("delete")}

NextCount ==
    \/ \E actor \in UserIds, t \in TaskTargets, content \in Contents :
          /\ Cardinality(Requests("create")) < MaxCreates
          /\ Requests("delete") = {}
          /\ StartCreateComment(actor, t, content)
    \/ \E i \in DOMAIN reqs : InsertCommentStep(i)
    \/ \E i \in DOMAIN reqs : IncrementCountStep(i)
    \/ \E actor \in UserIds, t \in TaskTargets,
          c \in ({reqs[i].comment : i \in Requests("create")} \ {None})
                   \ TargetedComments :
          /\ Finished("create") = Requests("create")
          /\ StartDeleteComment(actor, t, c)
    \/ \E i \in DOMAIN reqs : DeleteRowStep(i)
    \/ \E i \in DOMAIN reqs : DecrementCountStep(i)

SpecCount == InitCount /\ [][NextCount]_vars

\* C2: when N create requests ran concurrently on a task that started with
\* InitialComments comments, and then M delete requests on distinct comments
\* among those, each by its author, and all have ended, whatever the order of
\* their steps: every request succeeded and the task's comments_count is
\* InitialComments + N - M, which is the number of its comments.
CountAfterCreatesAndDeletes ==
    (\A i \in DOMAIN reqs : reqs[i].pc = "done") =>
        \A t \in DOMAIN db.tasks :
            LET N == Cardinality({i \in Requests("create") : reqs[i].task = t})
                M == Cardinality({i \in Requests("delete") : reqs[i].task = t})
            IN  /\ M <= N
                /\ \A i \in Requests("create") : reqs[i].status = 201
                /\ \A i \in Requests("delete") : reqs[i].status = 204
                /\ db.tasks[t].comments_count = InitialComments + N - M
                /\ db.tasks[t].comments_count = Cardinality(CommentsOf(db, t))

\* C2 witness: two creates whose inserts ran in the opposite order of their
\* starts, and one delete, have all ended
CreatesCrossedThenDelete ==
    /\ \A i \in DOMAIN reqs : reqs[i].pc = "done"
    /\ Cardinality(Requests("delete")) >= 1
    /\ \E i, j \in Requests("create") : i < j /\ reqs[i].comment > reqs[j].comment

(* ------- creates and deletes in any interleaving (SpecRace) ------------ *)
NextRace ==
    \/ \E actor \in UserIds, t \in TaskTargets, content \in Contents :
          /\ Cardinality(Requests("create")) < MaxCreates
          /\ StartCreateComment(actor, t, content)
    \/ \E i \in DOMAIN reqs : InsertCommentStep(i)
    \/ \E i \in DOMAIN reqs : IncrementCountStep(i)
    \/ \E actor \in UserIds, t \in TaskTargets, c \in CommentTargets :
          /\ Cardinality(Requests("delete")) < MaxDeletes
          /\ StartDeleteComment(actor, t, c)
    \/ \E i \in DOMAIN reqs : DeleteRowStep(i)
    \/ \E i \in DOMAIN reqs : DecrementCountStep(i)

SpecRace == InitCount /\ [][NextRace]_vars

\* C3: in every state of every interleaving: every task's comments_count is at
\* least 0, and for every comment that is gone, once the delete requests about
\* it have ended, exactly one of them has decremented the counter.
EachRemovalDecrementsOnce ==
    /\ \A t \in DOMAIN db.tasks : db.tasks[t].comments_count >= 0
    /\ \A c \in TargetedComments :
          ( /\ c \notin DOMAIN db.comments
            /\ \A i \in Requests("delete") :
                  reqs[i].comment = c => reqs[i].pc = "done" )
          => Cardinality({i \in Finished("delete") :
                            reqs[i].comment = c /\ reqs[i].status = 204}) = 1

(* ------------- one task patched field by field (SpecUpdate) ------------ *)
\* a PATCH body that names every writable field, and the two read-only ones
FullPatch ==
    [title |-> "b", description |-> "d", status |-> "done", priority |-> "high",
     due_date |-> 1, board |-> 2, comments_count |-> 5]
\* the bodies of the requests: every choice of the writable fields, and bodies
\* that also carry board and comments_count
PatchInputs ==
    {Restrict(FullPatch, S) : S \in SUBSET SimpleFields}
        \cup {Restrict(FullPatch, {"board", "comments_count"}), FullPatch}

\* user 1's board with member 2; its task has one comment and counts it
InitUpdate ==
    /\ db = [EmptyDb EXCEPT
               !.boards = (1 :> [title |-> "a", owner |-> 1, members |-> {2}]),
               !.nextBoardId = 2,
               !.tasks = (1 :> [DefaultTask(1) EXCEPT !.comments_count = 1]),
               !.nextTaskId = 2,
               !.comments = (1 :> [task |-> 1, author |-> 1, content |-> "c"]),
               !.nextCommentId = 2]
    /\ reqs = <<>>
    /\ resp = NoResponse

NextUpdate ==
    \E actor \in UserIds, t \in TaskTargets, data \in PatchInputs,
       aid \in NamedInputs, rid \in NamedInputs :
        UpdateTask(actor, t, data, aid, rid)

SpecUpdate == InitUpdate /\ [][NextUpdate]_vars

\* C11: in every state, for every PATCH of a task: when it succeeds, the
\* stored assignee (reviewer) is the old one if the key is absent, null if it
\* is null, the named user if it names one, each independently of the other;
\* each of title, description, status, priority, due_date has the body's value
\* if the body carries it and its old value if not; and, succeed or fail,
\* comments_count and board are as before and no other task is touched.
UpdateTaskThreeState ==
    \A actor \in db.users, t \in DOMAIN db.tasks, data \in PatchInputs,
       aid \in UserIdInputs, rid \in UserIdInputs :
        \A r \in {TaskDetailView_patch(db, actor, t, data, aid, rid)} :
        LET old == db.tasks[t]
            new == r.db.tasks[t]
        IN  /\ DOMAIN r.db.tasks = DOMAIN db.tasks
            /\ \A u \in DOMAIN db.tasks \ {t} : r.db.tasks[u] = db.tasks[u]
            /\ new.comments_count = old.comments_count
            /\ new.board = old.board
            /\ r.resp.status = 200 =>
                  /\ new.assignee = (IF aid.given THEN aid.id ELSE old.assignee)
                  /\ new.reviewer = (IF rid.given THEN rid.id ELSE old.reviewer)
                  /\ \A f \in SimpleFields :
                        new[f] = (IF f \in DOMAIN data THEN data[f] ELSE old[f])

\* C11 witness: successful updates have left the task with a new title and
\* its first description, with reviewer 2 and the assignee cleared again
PatchedSomeFieldsOnly ==
    /\ resp.op = "updateTask"
    /\ resp.status = 200
    /\ 1 \in DOMAIN db.tasks
    /\ db.tasks[1].title = "b"
    /\ db.tasks[1].description = ""
    /\ db.tasks[1].reviewer = 2
    /\ db.tasks[1].assignee = None
    /\ db.tasks[1].comments_count = 1

(* --------------- one task deleted or patched (SpecDelTask) ------------- *)
\* user 1's board with any members; its task has a comment, and any assignee
\* and reviewer, who may have left the board since they were set
InitDelTask ==
    /\ \E mem \in SUBSET UserIds, a \in {None} \cup UserIds,
          r \in {None} \cup UserIds :
          db = [EmptyDb EXCEPT
                  !.boards = (1 :> [title |-> "a", owner |-> 1, members |-> mem]),
                  !.nextBoardId = 2,
                  !.tasks = (1 :> [DefaultTask(1) EXCEPT !.assignee = a,
                                                         !.reviewer = r,
                                                         !.comments_count = 1]),
                  !.nextTaskId = 2,
                  !.comments = (1 :> [task |-> 1, author |-> 1, content |-> "c"]),
                  !.nextCommentId = 2]
    /\ reqs = <<>>
    /\ resp = NoResponse

NextDelTask ==
    \/ \E actor \in UserIds, t \in TaskTargets : DeleteTask(actor, t)
    \/ \E actor \in UserIds, t \in TaskTargets, rid \in NamedInputs :
          UpdateTask(actor, t, NoData, NoUserId, rid)

SpecDelTask == InitDelTask /\ [][NextDelTask]_vars

\* C12: in every state, for every user u and task t: DELETE of t by u answers
\* 204 and removes t with its comments, and nothing else, exactly when u is
\* t's reviewer or the owner of t's board, member of the board or not;
\* otherwise it answers 403 and the store is unchanged, also for a member or
\* the assignee, whose PATCH of t is allowed all the same.
DeleteTaskReviewerOrOwner ==
    \A u \in db.users, t \in DOMAIN db.tasks :
        \A del \in {TaskDetailView_delete(db, u, t)} :
        LET obj == db.tasks[t]
            allowed == obj.reviewer = u \/ db.boards[obj.board].owner = u
        IN  /\ del.resp.status = (IF allowed THEN 204 ELSE 403)
            /\ ~allowed => del.db = db
            /\ allowed =>
                  /\ del.db.tasks = Restrict(db.tasks, DOMAIN db.tasks \ {t})
                  /\ del.db.comments =
                        Restrict(db.comments,
                                 {c \in DOMAIN db.comments : db.comments[c].task # t})
                  /\ del.db.boards = db.boards
                  /\ del.db.users = db.users
            /\ (~allowed /\ u \in db.boards[obj.board].members) =>
                  TaskDetailView_patch(db, u, t, NoData, NoUserId,
                                       NoUserId).resp.status = 200

\* C12 witness: the reviewer, who is neither the owner nor a member of the
\* board any more, has deleted the task, and its comment went with it
RemovedReviewerDeletedTask ==
    /\ resp.op = "deleteTask"
    /\ resp.status = 204
    /\ resp.actor # db.boards[1].owner
    /\ resp.actor \notin db.boards[1].members
    /\ db.tasks = <<>>
    /\ db.comments = <<>>

(* ------------- members removed from a board (SpecMember) --------------- *)
\* user 1's board with members 2 and 3 and a task whose assignee and reviewer
\* are the owner, a member or nobody
InitMember ==
    /\ \E a \in {None} \cup UserIds, r \in {None} \cup UserIds :
          db = [EmptyDb EXCEPT
                  !.boards = (1 :> [title |-> "a", owner |-> 1,
                                    members |-> {2, 3}]),
                  !.nextBoardId = 2,
                  !.tasks = (1 :> [DefaultTask(1) EXCEPT !.assignee = a,
                                                         !.reviewer = r]),
                  !.nextTaskId = 2]
    /\ reqs = <<>>
    /\ resp = NoResponse

NextMember ==
    \/ \E b \in BoardTargets, m \in ValidLists : PatchBoard(1, b, ABSENT, m)
    \/ \E actor \in UserIds : ListAssignedTo(actor)
    \/ \E actor \in UserIds : ListReviewing(actor)

SpecMember == InitMember /\ [][NextMember]_vars

\* C13: in every state, a PATCH of a board by any user with any members input
\* leaves every task as it was, and after it, as before it, GET
\* /api/tasks/assigned-to-me/ (/api/tasks/reviewing/) of every user u lists
\* exactly the tasks whose assignee (reviewer) is u, whether or not u is still
\* on the board of the task.
RemovedMemberKeepsTasks ==
    \A actor \in db.users, b \in DOMAIN db.boards, m \in MembersInputs :
        \A patch \in {BoardDetailView_patch(db, actor, b, ABSENT, m)} :
            /\ patch.db.tasks = db.tasks
            /\ \A u \in db.users : \A d \in {db, patch.db} :
                  /\ AssignedTaskListView_get(d, u).resp.status = 200
                  /\ AssignedTaskListView_get(d, u).resp.out.tasks =
                        {t \in DOMAIN db.tasks : db.tasks[t].assignee = u}
                  /\ ReviewingTaskListView_get(d, u).resp.status = 200
                  /\ ReviewingTaskListView_get(d, u).resp.out.tasks =
                        {t \in DOMAIN db.tasks : db.tasks[t].reviewer = u}
                  /\ AssignedTaskListView_get(d, u).db = d
                  /\ ReviewingTaskListView_get(d, u).db = d

\* C13 witness: user 2, removed from the board, lists the task still assigned
\* to them
RemovedAssigneeListsTask ==
    /\ resp.op = "listAssignedTo"
    /\ resp.actor = 2
    /\ resp.out.tasks = {1}
    /\ db.boards[1].members = {3}
    /\ db.boards[1].owner # 2
    /\ db.tasks[1].assignee = 2

(* --------- comments on the tasks of two boards (SpecComment) ----------- *)
\* user 1's board with member 2 and user 3's board without members, a task on
\* each, no comments
InitComment ==
    /\ db = [EmptyDb EXCEPT
               !.boards = (1 :> [title |-> "a", owner |-> 1, members |-> {2}])
                          @@ (2 :> [title |-> "a", owner |-> 3, members |-> {}]),
               !.nextBoardId = 3,
               !.tasks = (1 :> [DefaultTask(1) EXCEPT !.reviewer = 2])
                         @@ (2 :> DefaultTask(2)),
               !.nextTaskId = 3]
    /\ reqs = <<>>
    /\ resp = NoResponse

NextComment ==
    \/ \E actor \in UserIds, t \in TaskTargets, content \in Contents :
          CreateComment(actor, t, content)
    \/ \E actor \in UserIds, t \in TaskTargets, c \in CommentTargets :
          DeleteComment(actor, t, c)
    \/ \E b \in BoardTargets, m \in ValidLists :
          PatchBoard(db.boards[1].owner, b, ABSENT, m)

SpecComment == InitComment /\ [][NextComment]_vars

\* C14: in every state, for every user u, task t and content: POST of a
\* comment on t by u answers 201 only if u is the owner or a member of t's
\* board; then exactly one comment is added, on t and by u, comments_count of t
\* is one more and every other task is as before; when u is neither owner nor
\* member it answers 403; and whenever it does not answer 201 the store is
\* unchanged.
CreateCommentMembersOnly ==
    \A u \in db.users, t \in DOMAIN db.tasks, content \in Contents :
        \A post \in {TaskCommentView_post(db, u, t, content)} :
        LET board == db.boards[db.tasks[t].board]
            on == board.owner = u \/ u \in board.members
            added == DOMAIN post.db.comments \ DOMAIN db.comments
        IN  /\ post.resp.status = 201 => on
            /\ ~on => post.resp.status = 403
            /\ post.resp.status # 201 => post.db = db
            /\ post.resp.status = 201 =>
                  /\ Cardinality(added) = 1
                  /\ \A c \in added : /\ post.db.comments[c].task = t
                                      /\ post.db.comments[c].author = u
                  /\ \A c \in DOMAIN db.comments :
                        /\ c \in DOMAIN post.db.comments
                        /\ post.db.comments[c] = db.comments[c]
                  /\ post.db.tasks =
                        [db.tasks EXCEPT ![t].comments_count = @ + 1]
                  /\ post.db.boards = db.boards

\* C14 witness: task 1 has got a comment and counts it, task 2 has none and
\* counts none, and the last request, of a user off the board, was refused
OutsiderRefusedComment ==
    /\ resp.op = "createComment"
    /\ resp.status = 403
    /\ Cardinality(CommentsOf(db, 1)) = 1
    /\ db.tasks[1].comments_count = 1
    /\ CommentsOf(db, 2) = {}
    /\ db.tasks[2].comments_count = 0

\* C15: in every state, for every user u and comment c of task t: DELETE of c
\* by u answers 204, removes c alone and leaves comments_count of t one less
\* and every other task as before, exactly when u is the author of c, on the
\* board or not; for anyone else, the board owner and the reviewer of t
\* included, it answers 403 and the store is unchanged.
DeleteCommentAuthorOnly ==
    \A u \in db.users, c \in DOMAIN db.comments :
        \A t \in {db.comments[c].task} :
        \A del \in {TaskCommentDetailView_delete(db, u, t, c)} :
            IF db.comments[c].author = u
            THEN /\ del.resp.status = 204
                 /\ del.db.comments = Restrict(db.comments, DOMAIN db.comments \ {c})
                 /\ del.db.tasks = [db.tasks EXCEPT ![t].comments_count = @ - 1]
                 /\ del.db.boards = db.boards
            ELSE /\ del.resp.status = 403
                 /\ del.db = db

\* C15 witness: user 2, author of a comment on task 1 and no longer on its
\* board, has deleted that comment, after which the task counts none
RemovedAuthorDeletedComment ==
    /\ resp.op = "deleteComment"
    /\ resp.status = 204
    /\ resp.actor = 2
    /\ 2 \notin db.boards[1].members
    /\ db.boards[1].owner = 1
    /\ db.comments = <<>>
    /\ db.tasks[1].comments_count = 0

(* ------------- boards and tasks deleted (SpecCascade) ------------------ *)
\* user 1's board with member 2 and user 3's board, a task on each and a
\* comment on each task, by any author
InitCascade ==
    /\ \E a1 \in UserIds, a2 \in UserIds :
          db = [EmptyDb EXCEPT
                  !.boards = (1 :> [title |-> "a", owner |-> 1, members |-> {2}])
                             @@ (2 :> [title |-> "a", owner |-> 3, members |-> {}]),
                  !.nextBoardId = 3,
                  !.tasks = (1 :> [DefaultTask(1) EXCEPT !.comments_count = 1])
                            @@ (2 :> [DefaultTask(2) EXCEPT !.comments_count = 1]),
                  !.nextTaskId = 3,
                  !.comments = (1 :> [task |-> 1, author |-> a1, content |-> "c"])
                               @@ (2 :> [task |-> 2, author |-> a2, content |-> "c"]),
                  !.nextCommentId = 3]
    /\ reqs = <<>>
    /\ resp = NoResponse

NextCascade ==
    \/ \E actor \in UserIds, b \in BoardTargets : DeleteBoard(actor, b)
    \/ \E actor \in UserIds, t \in TaskTargets : DeleteTask(actor, t)
    \/ \E actor \in UserIds, t \in TaskTargets : CreateComment(actor, t, "c")
    \/ \E u \in UserIds : DeleteUser(u)

SpecCascade == InitCascade /\ [][NextCascade]_vars

\* C16: in every state every task's board exists and every comment's task
\* exists; a DELETE of board b that succeeds leaves exactly the other boards,
\* the tasks of the other boards and the comments of those tasks, each as it
\* was; a DELETE of task t that succeeds leaves the boards, exactly the other
\* tasks and the comments of the other tasks, each as it was.
CascadeLeavesNoOrphans ==
    /\ \A t \in DOMAIN db.tasks : db.tasks[t].board \in DOMAIN db.boards
    /\ \A c \in DOMAIN db.comments : db.comments[c].task \in DOMAIN db.tasks
    /\ \A u \in db.users, b \in DOMAIN db.boards :
          \A del \in {BoardDetailView_delete(db, u, b)} :
              del.resp.status = 204 =>
                  /\ del.db.boards = Restrict(db.boards, DOMAIN db.boards \ {b})
                  /\ del.db.tasks =
                        Restrict(db.tasks,
                                 {t \in DOMAIN db.tasks : db.tasks[t].board # b})
                  /\ del.db.comments =
                        Restrict(db.comments,
                                 {c \in DOMAIN db.comments :
                                     db.tasks[db.comments[c].task].board # b})
    /\ \A u \in db.users, t \in DOMAIN db.tasks :
          \A del \in {TaskDetailView_delete(db, u, t)} :
              del.resp.status = 204 =>
                  /\ del.db.boards = db.boards
                  /\ del.db.tasks = Restrict(db.tasks, DOMAIN db.tasks \ {t})
                  /\ del.db.comments =
                        Restrict(db.comments,
                                 {c \in DOMAIN db.comments : db.comments[c].task # t})

\* C16 witness: board 1 has been deleted with its task and that task's
\* comment, while board 2 keeps its task and comment and no account was deleted
BoardGoneWithTaskAndComment ==
    /\ resp.op = "deleteBoard"
    /\ resp.status = 204
    /\ resp.id = 1
    /\ db.users = UserIds
    /\ DOMAIN db.boards = {2}
    /\ DOMAIN db.tasks = {2}
    /\ DOMAIN db.comments = {2}

\* C17: every step that deletes the account of a user u, owner of boards or
\* not, removes exactly the comments of u, sets assignee and reviewer to null
\* on the tasks that named u and leaves every other field of every task as it
\* was, and deletes no task: the stored tasks after the step are the stored
\* tasks before it.
UserDeleteKeepsEveryTask ==
    [][\A u \in UserIds :
          (u \in db.users /\ resp'.op = "deleteUser" /\ resp'.id = u) =>
              /\ DOMAIN db'.tasks = DOMAIN db.tasks
              /\ \A t \in DOMAIN db.tasks \cap DOMAIN db'.tasks :
                    db'.tasks[t] = SetNull(db.tasks[t], u)
              /\ db'.comments =
                    Restrict(db.comments,
                             {c \in DOMAIN db.comments : db.comments[c].author # u})
      ]_vars

(* ------------- registrations and logins in turn (SpecAuth) ------------- *)
\* no account yet
InitAuth ==
    /\ db = [EmptyDb EXCEPT !.users = {}, !.accounts = <<>>, !.nextUserId = 1,
                            !.tokens = {}, !.nextTokenKey = 1]
    /\ reqs = <<>>
    /\ resp = NoResponse

NextAuth ==
    \/ \E fullname \in Fullnames \cup {""}, email \in Emails \cup {""},
          password \in Passwords, repeated_password \in Passwords :
          Register(fullname, email, password, repeated_password)
    \/ \E email \in Emails \cup {""}, password \in Passwords :
          Login(email, password)

SpecAuth == InitAuth /\ [][NextAuth]_vars

\* C18: in every state, for every fullname, email, password and
\* repeated_password of a registration request, given, blank or left out, with
\* password different from repeated_password: the answer is 400 and the users,
\* their accounts and the tokens are as before.
MismatchedPasswordsRefused ==
    \A fullname \in FullnameInputs, email \in EmailInputs,
       password \in PasswordInputs, repeated_password \in PasswordInputs :
        password # repeated_password =>
            \A reg \in {RegistrationView_post(db, fullname, email, password,
                                              repeated_password)} :
                /\ reg.resp.status = 400
                /\ reg.db.users = db.users
                /\ reg.db.accounts = db.accounts
                /\ reg.db.tokens = db.tokens

\* C18 witness: after an account was registered, a registration whose two
\* passwords differ was refused with the error of save()
MismatchRefusedAfterRegister ==
    /\ resp.op = "register"
    /\ resp.status = 400
    /\ resp.out.detail = "passwords dont match"
    /\ db.users # {}

(* -------- registrations in any interleaving (SpecRegisterRace) --------- *)
\* a registration request ends when its response is sent
EndRegister(i, status) ==
    /\ reqs' = [reqs EXCEPT ![i].pc = "done", ![i].status = status]
    /\ resp' = Response("register", None, None, status, NoBody)

\* RegistrationView.post up to save()'s comparison of the passwords, which
\* read nothing of the store; a refused request ends here
StartRegister(fullname, email, password, repeated_password) ==
    IF /\ RegistrationIsValid(fullname, email, password, repeated_password)
       /\ PasswordsMatch(password, repeated_password)
    THEN /\ reqs' = Append(reqs, [kind |-> "register", fullname |-> fullname,
                                  email |-> email, password |-> password,
                                  pc |-> "exists", status |-> None,
                                  user |-> None])
         /\ UNCHANGED <<db, resp>>
    ELSE /\ resp' = Response("register", None, None, 400, Detail("invalid"))
         /\ UNCHANGED <<db, reqs>>

\* save(): User.objects.filter(email=...).exists()
ExistsStep(i) ==
    /\ reqs[i].kind = "register"
    /\ reqs[i].pc = "exists"
    /\ UNCHANGED db
    /\ IF ExistsCheck(db, reqs[i].email) = 200
       THEN /\ reqs' = [reqs EXCEPT ![i].pc = "save"]
            /\ UNCHANGED resp
       ELSE EndRegister(i, ExistsCheck(db, reqs[i].email))

\* save(): account.save(), the INSERT
SaveStep(i) ==
    /\ reqs[i].kind = "register"
    /\ reqs[i].pc = "save"
    /\ IF SaveRaises(db, reqs[i].fullname)
       THEN /\ EndRegister(i, 500)
            /\ UNCHANGED db
       ELSE /\ db' = InsertUser(db, reqs[i].fullname, reqs[i].email,
                                reqs[i].password)
            /\ reqs' = [reqs EXCEPT ![i].pc = "token", ![i].user = db.nextUserId]
            /\ UNCHANGED resp

\* post(): Token.objects.get_or_create, then the 201 response
TokenStep(i) ==
    /\ reqs[i].kind = "register"
    /\ reqs[i].pc = "token"
    /\ LET token == Token_get_or_create(db, reqs[i].user)
       IN  /\ db' = token.db
           /\ reqs' = [reqs EXCEPT ![i].pc = "done", ![i].status = 201]
           /\ resp' = TokenResponse("register", reqs[i].user, 201, token.key)

NextRegisterRace ==
    \/ \E fullname \in Fullnames, email \in Emails, password \in {"p"},
          repeated_password \in Passwords :
          /\ Cardinality(Requests("register")) < MaxRegisters
          /\ StartRegister(fullname, email, password, repeated_password)
    \/ \E i \in DOMAIN reqs : ExistsStep(i)
    \/ \E i \in DOMAIN reqs : SaveStep(i)
    \/ \E i \in DOMAIN reqs : TokenStep(i)

SpecRegisterRace == InitAuth /\ [][NextRegisterRace]_vars

\* C19: in every state of every interleaving of registration requests, no two
\* stored users have the same email; and a registration request, handled from
\* start to end, whose email is that of a stored user answers 400 and stores
\* nothing.
EmailsAreUnique ==
    /\ \A u, v \in DOMAIN db.accounts :
          u # v => db.accounts[u].email # db.accounts[v].email
    /\ \A fullname \in FullnameInputs, email \in EmailInputs,
          password \in PasswordInputs, repeated_password \in PasswordInputs :
          EmailExists(db, email) =>
              \A reg \in {RegistrationView_post(db, fullname, email, password,
                                                repeated_password)} :
                  /\ reg.resp.status = 400
                  /\ reg.db = db

\* C20: in every state reached by registrations and logins: for every stored
\* user, registered with an email and a password, a login with that email and
\* password answers 200 with that user's token, which is the token the
\* registration returned, and so does the login after it, creating no token;
\* no user has more than one token; and a login whose email is that of no
\* user, or whose password is not the one of the user with that email,
\* answers 400 and creates no token.
LoginReturnsRegisteredToken ==
    /\ \A u \in DOMAIN db.accounts, password \in Passwords :
          check_password(password, db.accounts[u].password) =>
              \A login \in {CustomLoginView_post(db, db.accounts[u].email, password)} :
                  /\ login.resp.status = 200
                  /\ login.resp.id = u
                  /\ [key |-> login.resp.out.token, user |-> u] \in db.tokens
                  /\ login.db = db
                  /\ CustomLoginView_post(login.db, db.accounts[u].email,
                                          password).resp = login.resp
                  /\ (resp.op = "register" /\ resp.status = 201 /\ resp.id = u)
                        => login.resp.out.token = resp.out.token
    /\ \A u \in DOMAIN db.accounts : Cardinality(TokensOf(db, u)) <= 1
    /\ \A email \in EmailInputs, password \in PasswordInputs :
          (~\E u \in DOMAIN db.accounts :
                /\ db.accounts[u].email = email
                /\ check_password(password, db.accounts[u].password))
          => \A login \in {CustomLoginView_post(db, email, password)} :
                /\ login.resp.status = 400
                /\ login.db = db

(* ------------- the end-to-end scenario (SpecScenario) ------------------ *)
\* each request of the scenario is sent when the response to the one before it
\* has come back; A is the first account registered (id 1), B the second (id 2)
Answered(op, status) == resp.op = op /\ resp.status = status

NextScenario ==
    \* A registers, then B, with another email and name; then A logs in
    \/ /\ db.users = {}
       /\ \E fullname \in Fullnames, email \in Emails :
             Register(fullname, email, "p", "p")
    \/ /\ Answered("register", 201)
       /\ db.users = {1}
       /\ \E fullname \in Fullnames \ {db.accounts[1].username},
             email \in Emails \ {db.accounts[1].email} :
             Register(fullname, email, "q", "q")
    \/ /\ Answered("register", 201)
       /\ db.users = {1, 2}
       /\ Login(db.accounts[1].email, "p")
    \* A creates a board with member B, then a task on it with reviewer B
    \/ /\ Answered("login", 200)
       /\ \E title \in Titles :
             CreateBoard(1, title, [kind |-> "list", ids |-> <<2>>])
    \/ /\ Answered("createBoard", 201)
       /\ \E data \in TaskData :
             CreateTask(1, resp.id, data, NoUserId, [given |-> TRUE, id |-> 2])
    \* B comments on the task, deletes the comment, then deletes the task
    \/ /\ Answered("createTask", 201)
       /\ CreateComment(2, resp.out.created, "c")
    \/ /\ Answered("createComment", 201)
       /\ DeleteComment(2, resp.id, resp.out.created)
    \/ /\ Answered("deleteComment", 204)
       /\ \E t \in DOMAIN db.tasks : DeleteTask(2, t)
    \* A reads the board
    \/ /\ Answered("deleteTask", 204)
       /\ \E b \in DOMAIN db.boards : GetBoard(1, b)

SpecScenario == InitAuth /\ [][NextScenario]_vars

\* C21: in every state of the scenario the last request has succeeded and the
\* next one can be sent, until A has read the board: after the board is
\* created its owner is A and its member B; after the task is created its
\* reviewer is B and its comments_count 0; after B's comment comments_count is
\* 1; after B has deleted the comment it is 0; B, reviewer and not owner, has
\* then deleted the task; and A's board detail lists no task.
ScenarioSucceeds ==
    /\ resp.op # "getBoard" => ENABLED NextScenario
    /\ resp.op \in {"none", "register", "login", "createBoard", "createTask",
                    "createComment", "deleteComment", "deleteTask", "getBoard"}
    /\ resp.op = "register" => resp.status = 201
    /\ resp.op = "login" => resp.status = 200 /\ resp.id = 1
    /\ resp.op = "createBoard" =>
          /\ resp.status = 201
          /\ db.boards[1].owner = 1
          /\ db.boards[1].members = {2}
    /\ resp.op = "createTask" =>
          /\ resp.status = 201
          /\ db.tasks[1].board = 1
          /\ db.tasks[1].reviewer = 2
          /\ db.tasks[1].comments_count = 0
    /\ resp.op = "createComment" =>
          /\ resp.status = 201
          /\ db.tasks[1].comments_count = 1
          /\ Cardinality(CommentsOf(db, 1)) = 1
          /\ \A c \in CommentsOf(db, 1) : db.comments[c].author = 2
    /\ resp.op = "deleteComment" =>
          /\ resp.status = 204
          /\ db.tasks[1].comments_count = 0
          /\ db.comments = <<>>
    /\ resp.op = "deleteTask" =>
          /\ resp.status = 204
          /\ resp.actor = 2
          /\ db.boards[1].owner # 2
          /\ db.tasks = <<>>
    /\ resp.op = "getBoard" =>
          /\ resp.status = 200
          /\ resp.actor = 1
          /\ resp.out.owner_id = 1
          /\ resp.out.members = {2}
          /\ resp.out.tasks = {}

\* C21 witness: the scenario has run to its end: A has read the board, which
\* lists no task, after B's comment and task were created and deleted
ScenarioEnded ==
    /\ Answered("getBoard", 200)
    /\ resp.actor = 1
    /\ resp.out.tasks = {}
    /\ db.nextTaskId = 2
    /\ db.nextCommentId = 2
    /\ db.tasks = <<>>
    /\ db.comments = <<>>

(* ---------------- error answers of the task requests ------------------ *)
\* C22: in every state, for every user, every board id of the request (the id
\* of a board, of no board, or none) and every assignee_id and reviewer_id: when
\* the id is that of no board, POST /api/tasks/ stores nothing and answers 404
\* for a body the serializer accepts (400 for one it rejects), never 403; and
\* it answers 403 only for an existing board whose owner or member the user is
\* not.
CreateTaskBoardResolvedFirst ==
    \A actor \in db.users, b \in {None} \cup BoardTargets,
       data \in {TitleOnly, NoData}, aid \in UserIdInputs, rid \in UserIdInputs :
        \A r \in {CreateTaskView_post(db, actor, b, data, aid, rid)} :
            /\ b \notin DOMAIN db.boards =>
                  /\ r.db = db
                  /\ r.resp.status # 403
                  /\ r.resp.status = IF data = TitleOnly THEN 404 ELSE 400
            /\ r.resp.status = 403 =>
                  /\ b \in DOMAIN db.boards
                  /\ db.boards[b].owner # actor
                  /\ actor \notin db.boards[b].members

\* C22 witness: a user who is neither owner nor member of the only board asked
\* for a task on a board that does not exist and was answered 404
MissingBoardNotFound ==
    /\ resp.op = "createTask"
    /\ resp.status = 404
    /\ resp.id \notin DOMAIN db.boards
    /\ resp.actor # db.boards[1].owner
    /\ resp.actor \notin db.boards[1].members
    /\ db.tasks = <<>>

\* C23: in every state, for every user u, the author included, every stored
\* comment c and every task id t that is the id of no task or of a task other
\* than the one of c: DELETE /api/tasks/t/comments/c/ answers 404, not 403,
\* and leaves the comment and every task's comments_count as they were.
MismatchedCommentNotFound ==
    \A u \in db.users, c \in DOMAIN db.comments, t \in {None} \cup TaskTargets :
        (t \notin DOMAIN db.tasks \/ db.comments[c].task # t) =>
            \A del \in {TaskCommentDetailView_delete(db, u, t, c)} :
                /\ del.resp.status = 404
                /\ del.db = db

\* C23 witness: the author of a stored comment asked to delete it under
\* another task's id and was answered 404; the comment is still counted
AuthorGotNotFound ==
    /\ resp.op = "deleteComment"
    /\ resp.status = 404
    /\ resp.id \in DOMAIN db.comments
    /\ resp.actor = db.comments[resp.id].author
    /\ db.tasks[db.comments[resp.id].task].comments_count >= 1

\* C24: in every state, for every PATCH of a task: by the owner or a member of
\* its board, with any scalar fields and an assignee_id that is absent, null
\* or names a user on the board, and a reviewer_id that names no user or a user
\* off the board, it answers 400 and the store, with the task's assignee,
\* reviewer and scalar fields, is as before; by a user off the board it answers
\* 403 and the store is as before; and whatever the request, a PATCH that does
\* not answer 200 leaves the store as before.
FailedUpdateChangesNothing ==
    \A actor \in db.users, t \in DOMAIN db.tasks, data \in PatchInputs,
       aid \in UserIdInputs, rid \in UserIdInputs :
        \A r \in {TaskDetailView_patch(db, actor, t, data, aid, rid)} :
        LET b == db.tasks[t].board
            on == db.boards[b].owner = actor \/ actor \in db.boards[b].members
        IN  /\ r.resp.status # 200 => r.db = db
            /\ ~on => r.resp.status = 403
            /\ ( /\ on
                 /\ GetValidUser(db, aid.id, b)
                 /\ Names(rid)
                 /\ ~GetValidUser(db, rid.id, b) ) => r.resp.status = 400

\* C24 witness: after user 2 was made assignee and the title was changed, a
\* PATCH was refused for its reviewer_id, and the task is as the successful
\* updates left it
BadReviewerRefused ==
    /\ resp.op = "updateTask"
    /\ resp.status = 400
    /\ resp.out.detail = "reviewer_id"
    /\ db.tasks[1].assignee = 2
    /\ db.tasks[1].reviewer = None
    /\ db.tasks[1].title = "b"

(* ------------- owners and boards of tasks (SpecOwner) ------------------ *)
\* users 1 and 3 create boards, each with member 2, and tasks on their own
\* boards; the owner and the member PATCH boards with a body that holds an
\* owner_id, alone or with a title, and no members key; user 2 patches tasks
\* with a body that names another board with every writable field, and writes
\* comments on the first task and deletes them
NextOwner ==
    \/ \E actor \in {1, 3} :
          CreateBoard(actor, "a", [kind |-> "list", ids |-> <<2>>])
    \/ \E b \in DOMAIN db.boards,
          body \in {[owner_id |-> 2], [title |-> "b", owner_id |-> 3]} :
          \E actor \in {db.boards[b].owner, 2} :
             Apply(BoardDetailView_patchBody(db, actor, b, body,
                                             [kind |-> "absent", ids |-> <<>>]))
    \/ \E b \in DOMAIN db.boards :
          CreateTask(db.boards[b].owner, b, TitleOnly, NoUserId, NoUserId)
    \/ \E t \in DOMAIN db.tasks : UpdateTask(2, t, FullPatch, NoUserId, NoUserId)
    \/ \E t \in DOMAIN db.tasks \cap {1} : CreateComment(2, t, "c")
    \/ \E c \in DOMAIN db.comments : DeleteComment(2, db.comments[c].task, c)

SpecOwner == Init /\ [][NextOwner]_vars

\* C25: in every step, a board that exists before and after it has the same
\* owner, and a board the step adds was created by POST /api/boards/ and is
\* owned by the user who sent it; a task that exists before and after the step
\* is on the same board, and a task the step adds was created by POST
\* /api/tasks/ on the board the request named.
OwnerAndBoardFixed ==
    [][ /\ \A b \in DOMAIN db.boards \cap DOMAIN db'.boards :
              db'.boards[b].owner = db.boards[b].owner
        /\ \A b \in DOMAIN db'.boards \ DOMAIN db.boards :
              /\ resp'.op = "createBoard"
              /\ db'.boards[b].owner = resp'.actor
        /\ \A t \in DOMAIN db.tasks \cap DOMAIN db'.tasks :
              db'.tasks[t].board = db.tasks[t].board
        /\ \A t \in DOMAIN db'.tasks \ DOMAIN db.tasks :
              /\ resp'.op = "createTask"
              /\ db'.tasks[t].board = resp'.id
      ]_vars

\* C25 witness: with two boards stored, the task of board 1 has taken every
\* field of a PATCH that named board 2 and is still on board 1, and a member
\* who is not the owner has patched a board, whose owner is who created it
OwnerAndBoardKept ==
    /\ DOMAIN db.boards = {1, 2}
    /\ 1 \in DOMAIN db.tasks
    /\ db.tasks[1].title = "b"
    /\ db.tasks[1].board = 1
    /\ resp.op = "patchBoard"
    /\ resp.status = 200
    /\ resp.actor = 2
    /\ db.boards[resp.id].owner # 2
    /\ db.boards[resp.id].title = "b"

====
